---- MODULE Spec2Model ----
(***************************************************************************)
(* Fingerprint enroll / verify sessions of rs-fprintui (src/src/main.rs). *)
(*                                                                         *)
(* One session is one call of handle_enrollment or handle_verification:    *)
(* it opens a prompt dialog, spawns the session task (claim, start,       *)
(* subscribe, listen loop, stop, release, send) and installs a 100 ms      *)
(* timer whose callback polls the result channel.  Every .await of the     *)
(* task and of the poller is one step of the model.  The remote device     *)
(* service is the environment: it answers the calls and emits status       *)
(* signals.                                                                *)
(*                                                                         *)
(* A panic (unwrap / expect on an Err) ends the future that raised it.     *)
(* The future is polled from a C callback of the main loop, so depending   *)
(* on the build the panic also aborts the process; both outcomes are kept. *)
(***************************************************************************)
EXTENDS Naturals, Integers, Sequences, FiniteSets, TLC

\* ------------------------------------------------------------------ bounds
MaxSessions == 2      \* session slots of the model
MaxEvents == 3        \* status signals the device emits in one run
MaxLatePolls == 1     \* timer ticks counted after the result was received
PairClicks == 2       \* clicks of the user in a run with two sessions
PairEvents == 2       \* status signals emitted in a run with two sessions
ProbeEvents == 1      \* status signals emitted in a run over the whole vocabulary

Sessions == 1..MaxSessions

\* ----------------------------------------------------------- vocabulary
Kinds == {"Enroll", "Verify"}

\* The ten tokens offered by the finger selector.
ValidFingers ==
    {"left-thumb", "left-index-finger", "left-middle-finger", "left-ring-finger",
     "left-little-finger", "right-thumb", "right-index-finger",
     "right-middle-finger", "right-ring-finger", "right-little-finger"}

\* finger_name values handed to handle_enrollment / handle_verification.
FingerInputs == {"right-index-finger", "left-toe"}

SuccessCode(k) == IF k = "Enroll" THEN "enroll-completed" ELSE "verify-match"

EnrollRetryCodes ==
    {"enroll-stage-passed", "enroll-retry-scan", "enroll-swipe-too-short",
     "enroll-finger-not-centered", "enroll-remove-and-retry"}

VerifyRetryCodes ==
    {"verify-retry-scan", "verify-swipe-too-short",
     "verify-finger-not-centered", "verify-remove-and-retry"}

RetryCodes(k) == IF k = "Enroll" THEN EnrollRetryCodes ELSE VerifyRetryCodes

\* A status signal: (result, done).
Event(c, d) == [code |-> c, done |-> d]

\* Signals the device is made to emit while operation k runs: the kind's
\* success code with done set and unset, every retry code of the kind, a
\* code of neither table, and the other kind's success code.
OtherKind(k) == IF k = "Enroll" THEN "Verify" ELSE "Enroll"
SampleFailure(k) == IF k = "Enroll" THEN "enroll-disconnected" ELSE "verify-disconnected"
EventsOf(k) ==
    {Event(SuccessCode(k), TRUE), Event(SuccessCode(k), FALSE),
     Event(SampleFailure(k), TRUE), Event(SuccessCode(OtherKind(k)), TRUE)}
      \cup {Event(c, TRUE) : c \in RetryCodes(k)}

\* Every code of either table and the two codes of neither, with done set
\* and unset: what the device may emit when it is not held to EventsOf.
AllCodes ==
    {SuccessCode(k) : k \in Kinds} \cup EnrollRetryCodes \cup VerifyRetryCodes
      \cup {SampleFailure(k) : k \in Kinds}
AllEvents == {Event(c, d) : c \in AllCodes, d \in BOOLEAN}

\* Classify with one retry table shared by both kinds.
ClassifySharedRetry(k, code, done) ==
    IF ~done THEN "Continue"
    ELSE IF code = SuccessCode(k) THEN "Success"
    ELSE IF code \in EnrollRetryCodes \cup VerifyRetryCodes THEN "Continue"
    ELSE "Failure"

\* Classify taking every done event that is not the success code as final.
ClassifyDoneIsFinal(k, code, done) ==
    IF ~done THEN "Continue"
    ELSE IF code = SuccessCode(k) THEN "Success"
    ELSE "Failure"

\* Classify with the enroll success arm left in the verify loop.
ClassifyEnrollArm(k, code, done) ==
    IF ~done THEN "Continue"
    ELSE IF code = "enroll-completed" THEN "Success"
    ELSE IF code \in RetryCodes(k) THEN "Continue"
    ELSE "Failure"

\* The decision of one iteration of the listen loop.
Classify(k, code, done) ==
    IF ~done THEN "Continue"
    ELSE IF code = SuccessCode(k) THEN "Success"
    ELSE IF code \in RetryCodes(k) THEN "Continue"
    ELSE "Failure"

\* Result<(), String> of the listen loop, and "nothing yet".
NoResult == [tag |-> "None", code |-> ""]
OkResult == [tag |-> "Ok", code |-> ""]
ErrResult(c) == [tag |-> "Err", code |-> c]

\* LoopResult breaking with a fixed message instead of the code.
LoopResultFixedText(k, e) ==
    IF Classify(k, e.code, e.done) = "Success" THEN OkResult
    ELSE ErrResult("failed")

\* What `break` yields for a classified event.
LoopResult(k, e) ==
    IF Classify(k, e.code, e.done) = "Success" THEN OkResult
    ELSE ErrResult(e.code)

\* One remote call as the device service sees it.
Call(op, by, ok) == [op |-> op, by |-> by, ok |-> ok]

\* Holders of the device claim other than a session of this process.
Nobody == 0
Elsewhere == 0 - 1

\* The phase of the task at a position: before the listen loop, in it, or
\* after it has broken (the result is fixed) or the task has died.
Phase(p) ==
    IF p \in {"claim", "start", "subscribe"} THEN "starting"
    ELSE IF p = "listen" THEN "listening"
    ELSE "finished"

\* ---------------------------------------------------------------- state
VARIABLES
    pc,         \* pc[s]: position of the session task
    kind,       \* kind[s]: "Enroll" / "Verify" ("" before the request)
    finger,     \* finger[s]: the finger_name argument
    calls,      \* calls[s]: remote calls issued for session s, in order
    sub,        \* sub[s]: the status stream of s exists
    stream,     \* stream[s]: signals queued in the status stream
    seen,       \* seen[s]: events the listen loop has taken from the stream
    lost,       \* lost[s]: events emitted for s's operation before s subscribed
    result,     \* result[s]: value of `result` once the loop has broken
    chan,       \* chan[s]: messages in the async channel
    sent,       \* sent[s]: every message ever sent on the channel
    dialog,     \* dialog[s]: prompt dialog "none" / "shown" / "destroyed"
    cancelAt,   \* cancelAt[s]: phase of the task when Cancel was pressed ("" if never)
    ppc,        \* ppc[s]: position of the poller
    shown,      \* shown[s]: result dialogs presented for s
    latePolls,  \* latePolls[s]: polls made after the message was received
    devOwner,   \* holder of the device claim: a session, Nobody or Elsewhere
    devOp,      \* operation running on the device: "none" / "Enroll" / "Verify"
    toEmit,     \* signals the device will still emit in this run
    clicks,     \* Enroll / Verify clicks the user will still make in this run
    anyCode,    \* the device emits any of AllEvents, not only EventsOf
    crashed     \* the process was aborted by a panic

vars == <<pc, kind, finger, calls, sub, stream, seen, lost, result, chan, sent,
          dialog, cancelAt, ppc, shown, latePolls, devOwner, devOp, toEmit, clicks,
          anyCode, crashed>>

sessVars == <<kind, finger, clicks>>
uiVars == <<dialog, cancelAt, ppc, shown, latePolls>>
devVars == <<devOwner, devOp, toEmit, anyCode>>
taskVars == <<pc, calls, sub, stream, seen, lost, result, chan, sent>>

\* The state before any click, for a user who will click `c` times and a
\* device that will emit `n` signals (which ones is left to the caller).
InitWith(c, n) ==
    /\ pc = [s \in Sessions |-> "none"]
    /\ kind = [s \in Sessions |-> ""]
    /\ finger = [s \in Sessions |-> ""]
    /\ calls = [s \in Sessions |-> <<>>]
    /\ sub = [s \in Sessions |-> FALSE]
    /\ stream = [s \in Sessions |-> <<>>]
    /\ seen = [s \in Sessions |-> <<>>]
    /\ lost = [s \in Sessions |-> <<>>]
    /\ result = [s \in Sessions |-> NoResult]
    /\ chan = [s \in Sessions |-> <<>>]
    /\ sent = [s \in Sessions |-> <<>>]
    /\ dialog = [s \in Sessions |-> "none"]
    /\ cancelAt = [s \in Sessions |-> ""]
    /\ ppc = [s \in Sessions |-> "none"]
    /\ shown = [s \in Sessions |-> <<>>]
    /\ latePolls = [s \in Sessions |-> 0]
    /\ devOwner \in {Nobody, Elsewhere}
    /\ devOp = "none"
    /\ toEmit = n
    /\ clicks = c
    /\ crashed = FALSE

\* One session.
Init == InitWith(1, MaxEvents) /\ anyCode = FALSE

\* ------------------------------------------------------------- helpers
\* A panic ends the future; whether the process survives depends on the build.
Panic == crashed' \in BOOLEAN

\* The task's proxy and stream are dropped when its future ends.
DropStream(s) ==
    /\ sub' = [sub EXCEPT ![s] = FALSE]
    /\ stream' = [stream EXCEPT ![s] = <<>>]

Log(s, c) == calls' = [calls EXCEPT ![s] = Append(@, c)]

\* ------------------------------------------------------- entry points
\* A click on Enroll / Verify: handle_enrollment / handle_verification up to
\* its return.  The prompt dialogs are modal, so no request is possible
\* while one is on screen.
Request(s, k, f, connOk) ==
    /\ ~crashed
    /\ clicks > 0
    /\ pc[s] = "none"
    /\ \A t \in Sessions : t < s => pc[t] # "none"
    /\ \A t \in Sessions : dialog[t] # "shown"
    /\ clicks' = clicks - 1
    /\ kind' = [kind EXCEPT ![s] = k]
    /\ finger' = [finger EXCEPT ![s] = f]
    /\ IF connOk
       THEN /\ pc' = [pc EXCEPT ![s] = "claim"]
            /\ dialog' = [dialog EXCEPT ![s] = "shown"]
            /\ ppc' = [ppc EXCEPT ![s] = "poll"]
            /\ shown' = shown
       ELSE \* Connection::system() or the proxy failed: `?` returns the
            \* error and the click handler shows "Error: ...".
            /\ pc' = [pc EXCEPT ![s] = "noconn"]
            /\ shown' = [shown EXCEPT ![s] = Append(@, ErrResult("Error"))]
            /\ UNCHANGED <<dialog, ppc>>
    /\ UNCHANGED <<calls, sub, stream, seen, lost, result, chan, sent,
                   cancelAt, latePolls, devVars, crashed>>

\* The Cancel button of the prompt dialog: the response handler destroys
\* the dialog and does nothing else.
Cancel(s) ==
    /\ ~crashed
    /\ dialog[s] = "shown"
    /\ dialog' = [dialog EXCEPT ![s] = "destroyed"]
    /\ cancelAt' = [cancelAt EXCEPT ![s] = Phase(pc[s])]
    /\ UNCHANGED <<taskVars, sessVars, ppc, shown, latePolls, devVars, crashed>>

\* ------------------------------------------------------- session task
\* TaskClaim discarding the result of claim like the calls after it.
TaskClaimIgnoreErr(s) ==
    /\ ~crashed
    /\ pc[s] = "claim"
    /\ Log(s, Call("claim", "task", devOwner = Nobody))
    /\ devOwner' = IF devOwner = Nobody THEN s ELSE devOwner
    /\ pc' = [pc EXCEPT ![s] = "start"]
    /\ UNCHANGED <<sub, stream, seen, lost, result, chan, sent,
                   sessVars, uiVars, devOp, toEmit, anyCode, crashed>>

\* proxy.claim(..).await.unwrap()
TaskClaim(s) ==
    /\ ~crashed
    /\ pc[s] = "claim"
    /\ IF devOwner = Nobody
       THEN /\ Log(s, Call("claim", "task", TRUE))
            /\ devOwner' = s
            /\ pc' = [pc EXCEPT ![s] = "start"]
            /\ UNCHANGED crashed
       ELSE /\ Log(s, Call("claim", "task", FALSE))
            /\ devOwner' = devOwner
            /\ pc' = [pc EXCEPT ![s] = "panic"]
            /\ Panic
    /\ UNCHANGED <<sub, stream, seen, lost, result, chan, sent,
                   sessVars, uiVars, devOp, toEmit, anyCode>>

\* let _ = proxy.enroll_start / verify_start(..).await
TaskStart(s, accept) ==
    /\ ~crashed
    /\ pc[s] = "start"
    /\ LET ok == accept /\ finger[s] \in ValidFingers /\ devOwner = s /\ devOp = "none"
       IN /\ Log(s, Call("start", "task", ok))
          /\ devOp' = IF ok THEN kind[s] ELSE devOp
    /\ pc' = [pc EXCEPT ![s] = "subscribe"]
    /\ UNCHANGED <<sub, stream, seen, lost, result, chan, sent,
                   sessVars, uiVars, devOwner, toEmit, anyCode, crashed>>

\* proxy.receive_enroll_status / receive_verify_status().await.unwrap()
TaskSubscribe(s, ok) ==
    /\ ~crashed
    /\ pc[s] = "subscribe"
    /\ Log(s, Call("subscribe", "task", ok))
    /\ IF ok
       THEN /\ sub' = [sub EXCEPT ![s] = TRUE]
            /\ pc' = [pc EXCEPT ![s] = "listen"]
            /\ UNCHANGED crashed
       ELSE /\ sub' = sub
            /\ pc' = [pc EXCEPT ![s] = "panic"]
            /\ Panic
    /\ UNCHANGED <<stream, seen, lost, result, chan, sent,
                   sessVars, uiVars, devVars>>

\* One iteration of the listen loop on the next message of the stream.
TaskListen(s) ==
    /\ ~crashed
    /\ pc[s] = "listen"
    /\ stream[s] # <<>>
    /\ LET e == Head(stream[s])
       IN /\ stream' = [stream EXCEPT ![s] = Tail(@)]
          /\ seen' = [seen EXCEPT ![s] = Append(@, e)]
          /\ IF Classify(kind[s], e.code, e.done) = "Continue"
             THEN UNCHANGED <<pc, result>>
             ELSE /\ result' = [result EXCEPT ![s] = LoopResult(kind[s], e)]
                  /\ pc' = [pc EXCEPT ![s] = "stop"]
    /\ UNCHANGED <<calls, sub, lost, chan, sent, sessVars, uiVars, devVars, crashed>>

\* let _ = proxy.enroll_stop / verify_stop().await
TaskStop(s) ==
    /\ ~crashed
    /\ pc[s] = "stop"
    /\ LET ok == devOwner = s /\ devOp # "none"
       IN /\ Log(s, Call("stop", "task", ok))
          /\ devOp' = IF ok THEN "none" ELSE devOp
    /\ pc' = [pc EXCEPT ![s] = "release"]
    /\ UNCHANGED <<sub, stream, seen, lost, result, chan, sent,
                   sessVars, uiVars, devOwner, toEmit, anyCode, crashed>>

\* let _ = proxy.release().await
TaskRelease(s) ==
    /\ ~crashed
    /\ pc[s] = "release"
    /\ LET ok == devOwner = s
       IN /\ Log(s, Call("release", "task", ok))
          /\ devOwner' = IF ok THEN Nobody ELSE devOwner
          /\ devOp' = IF ok THEN "none" ELSE devOp
    /\ pc' = [pc EXCEPT ![s] = "send"]
    /\ UNCHANGED <<sub, stream, seen, lost, result, chan, sent,
                   sessVars, uiVars, toEmit, anyCode, crashed>>

\* let _ = sender.send(result).await; drop(proxy)
TaskSend(s) ==
    /\ ~crashed
    /\ pc[s] = "send"
    /\ chan' = [chan EXCEPT ![s] = Append(@, result[s])]
    /\ sent' = [sent EXCEPT ![s] = Append(@, result[s])]
    /\ pc' = [pc EXCEPT ![s] = "done"]
    /\ DropStream(s)
    /\ UNCHANGED <<calls, seen, lost, result, sessVars, uiVars, devVars, crashed>>

\* ------------------------------------------------------------- device
\* The device emits one status signal of the running operation.  It reaches
\* every stream subscribed to that signal; a session that has started the
\* operation but not yet subscribed misses it.
DeviceEmit(e) ==
    /\ ~crashed
    /\ devOp # "none"
    /\ e \in (IF anyCode THEN AllEvents ELSE EventsOf(devOp))
    /\ toEmit > 0
    /\ toEmit' = toEmit - 1
    /\ stream' = [s \in Sessions |->
                    IF sub[s] /\ kind[s] = devOp THEN Append(stream[s], e)
                    ELSE stream[s]]
    /\ lost' = [s \in Sessions |->
                    IF s = devOwner /\ ~sub[s] THEN Append(lost[s], e)
                    ELSE lost[s]]
    /\ UNCHANGED <<pc, calls, sub, seen, result, chan, sent,
                   sessVars, uiVars, devOwner, devOp, anyCode, crashed>>

\* ------------------------------------------------------------- poller
\* PollRecv going on without checking that the prompt dialog is still alive.
PollRecvNoUpgrade(s) ==
    /\ ~crashed
    /\ ppc[s] = "poll"
    /\ chan[s] # <<>>
    /\ chan' = [chan EXCEPT ![s] = Tail(@)]
    /\ LET r == Head(chan[s])
       IN /\ dialog' = [dialog EXCEPT ![s] = "destroyed"]
          /\ IF r.tag = "Ok" \/ kind[s] = "Enroll"
             THEN /\ shown' = [shown EXCEPT ![s] = Append(@, r)]
                  /\ ppc' = [ppc EXCEPT ![s] = "end"]
             ELSE /\ shown' = shown
                  /\ ppc' = [ppc EXCEPT ![s] = "stop"]
    /\ UNCHANGED <<pc, calls, sub, stream, seen, lost, result, sent,
                   sessVars, cancelAt, latePolls, devVars, crashed>>

\* A timer tick whose try_recv finds the message.
PollRecv(s) ==
    /\ ~crashed
    /\ ppc[s] = "poll"
    /\ chan[s] # <<>>
    /\ chan' = [chan EXCEPT ![s] = Tail(@)]
    /\ LET r == Head(chan[s])
       IN IF dialog[s] = "shown"
          THEN /\ dialog' = [dialog EXCEPT ![s] = "destroyed"]
               /\ IF r.tag = "Ok"
                  THEN /\ shown' = [shown EXCEPT ![s] = Append(@, r)]
                       /\ ppc' = [ppc EXCEPT ![s] = "end"]
                  ELSE IF kind[s] = "Enroll"
                  THEN /\ shown' = [shown EXCEPT ![s] = Append(@, r)]
                       /\ ppc' = [ppc EXCEPT ![s] = "end"]
                  ELSE /\ shown' = shown
                       /\ ppc' = [ppc EXCEPT ![s] = "stop"]
          ELSE \* the weak reference to the destroyed dialog is dead
               /\ ppc' = [ppc EXCEPT ![s] = "end"]
               /\ UNCHANGED <<dialog, shown>>
    /\ UNCHANGED <<pc, calls, sub, stream, seen, lost, result, sent,
                   sessVars, cancelAt, latePolls, devVars, crashed>>

\* Verify, Err branch: a fresh connection, then verify_stop().await.unwrap()
PollerStop(s, connOk, ok) ==
    /\ ~crashed
    /\ ppc[s] = "stop"
    /\ IF ~connOk
       THEN /\ ppc' = [ppc EXCEPT ![s] = "panic"]
            /\ calls' = calls
            /\ Panic
       ELSE /\ Log(s, Call("stop", "poller", ok))
            /\ IF ok
               THEN /\ ppc' = [ppc EXCEPT ![s] = "release"]
                    /\ UNCHANGED crashed
               ELSE /\ ppc' = [ppc EXCEPT ![s] = "panic"]
                    /\ Panic
    /\ UNCHANGED <<pc, sub, stream, seen, lost, result, chan, sent,
                   sessVars, dialog, cancelAt, shown, latePolls, devVars>>

\* Verify, Err branch: release().await.unwrap(), then the error dialog
PollerRelease(s, ok) ==
    /\ ~crashed
    /\ ppc[s] = "release"
    /\ Log(s, Call("release", "poller", ok))
    /\ IF ok
       THEN /\ shown' = [shown EXCEPT ![s] = Append(@, sent[s][1])]
            /\ ppc' = [ppc EXCEPT ![s] = "end"]
            /\ UNCHANGED crashed
       ELSE /\ shown' = shown
            /\ ppc' = [ppc EXCEPT ![s] = "panic"]
            /\ Panic
    /\ UNCHANGED <<pc, sub, stream, seen, lost, result, chan, sent,
                   sessVars, dialog, cancelAt, latePolls, devVars>>

\* A timer tick after the message was received: the closure given to
\* timeout_add_local returns ControlFlow::Continue whatever the spawned
\* future returns, so the timer keeps firing.
PollLate(s) ==
    /\ ~crashed
    /\ ppc[s] \in {"stop", "release", "end", "panic"}
    /\ latePolls[s] < MaxLatePolls
    /\ latePolls' = [latePolls EXCEPT ![s] = @ + 1]
    /\ UNCHANGED <<taskVars, sessVars, dialog, cancelAt, ppc, shown, devVars, crashed>>

\* ------------------------------------------------------ specification
TaskStep(s) ==
    \/ TaskClaim(s)
    \/ \E accept \in BOOLEAN : TaskStart(s, accept)
    \/ \E ok \in BOOLEAN : TaskSubscribe(s, ok)
    \/ TaskListen(s)
    \/ TaskStop(s)
    \/ TaskRelease(s)
    \/ TaskSend(s)

PollerStep(s) ==
    \/ PollRecv(s)
    \/ \E connOk, ok \in BOOLEAN : PollerStop(s, connOk, ok)
    \/ \E ok \in BOOLEAN : PollerRelease(s, ok)
    \/ PollLate(s)

Next ==
    \/ \E s \in Sessions, k \in Kinds, f \in FingerInputs, connOk \in BOOLEAN :
          Request(s, k, f, connOk)
    \/ \E s \in Sessions : Cancel(s)
    \/ \E s \in Sessions : TaskStep(s)
    \/ \E s \in Sessions : PollerStep(s)
    \/ \E e \in AllEvents : DeviceEmit(e)

Spec == Init /\ [][Next]_vars

\* Two sessions: the second click is possible once the first prompt dialog
\* is off the screen (cancelled, or destroyed by the poller).
InitTwo == InitWith(PairClicks, PairEvents) /\ anyCode = FALSE
SpecTwo == InitTwo /\ [][Next]_vars

\* One session against a device that may emit any code with either flag.
InitProbe == InitWith(1, ProbeEvents) /\ anyCode = TRUE
ProbeSpec == InitProbe /\ [][Next]_vars

\* The main loop runs every ready future and every due timer; the user and
\* the device are under no obligation.
FairSpec ==
    /\ Spec
    /\ \A s \in Sessions : WF_vars(TaskStep(s)) /\ WF_vars(PollerStep(s))

\* =========================================================== properties
\* Remote calls of session s, counted by operation.
Count(s, op) == Cardinality({i \in DOMAIN calls[s] : calls[s][i].op = op})
Issued(s, op) == Count(s, op) > 0
Accepted(s, op) == \E i \in DOMAIN calls[s] : calls[s][i].op = op /\ calls[s][i].ok
Refused(s, op) == \E i \in DOMAIN calls[s] : calls[s][i].op = op /\ ~calls[s][i].ok

\* The session task has run to its end, normally or by a panic.
TaskEnded(s) == pc[s] \in {"done", "panic"}

\* A terminal event of kind k: done, and the code is not in the retry set.
Terminal(k, e) == e.done /\ e.code \notin RetryCodes(k)

\* C1: release is invoked exactly once in every session whose claim
\* succeeded: never twice, and once the session task has ended, once.
C1_ReleaseExactlyOnce ==
    \A s \in Sessions :
        Accepted(s, "claim") =>
            /\ Count(s, "release") <= 1
            /\ TaskEnded(s) => Count(s, "release") = 1

\* C2: stop is invoked only in sessions whose start succeeded, never twice,
\* and exactly once when such a session has left the listen loop and ended.
C2_StopIffStartedOnce ==
    \A s \in Sessions :
        /\ Issued(s, "stop") => Accepted(s, "start")
        /\ Count(s, "stop") <= 1
        /\ (Accepted(s, "start") /\ pc[s] = "done") => Count(s, "stop") = 1

\* C3: every session that has ended has written exactly one outcome to the
\* channel, whatever path it took, and none writes more than one.
C3_ExactlyOneOutcome ==
    \A s \in Sessions :
        /\ Len(sent[s]) <= 1
        /\ TaskEnded(s) => Len(sent[s]) = 1

\* C5: when claim fails the session ends with a Failure outcome on the
\* channel and has made no other remote call.
C5_ClaimFailureDelivered ==
    \A s \in Sessions :
        Refused(s, "claim") =>
            /\ Len(calls[s]) = 1
            /\ TaskEnded(s) => (Len(sent[s]) = 1 /\ sent[s][1].tag = "Err")

\* C6: when claim succeeds and start fails, the outcome is a Failure at
\* once, the session does not go on to subscribe or listen, and it goes
\* to release.
C6_StartFailureReleases ==
    \A s \in Sessions :
        (Accepted(s, "claim") /\ Refused(s, "start")) =>
            /\ result[s].tag = "Err"
            /\ pc[s] \in {"release", "send", "done"}
            /\ seen[s] = <<>>

\* C10: the status subscription is established before start is issued, so
\* no event of the started operation is emitted ahead of the subscription.
C10_SubscribeBeforeStart ==
    \A s \in Sessions :
        /\ \A j \in DOMAIN calls[s] :
              calls[s][j].op = "start" =>
                  \E i \in 1..(j - 1) : calls[s][i].op = "subscribe" /\ calls[s][i].ok
        /\ lost[s] = <<>>

\* A terminal event has reached the session: it is queued in its stream or
\* the listen loop has taken it.
TerminalArrived(s) ==
    \/ \E i \in DOMAIN seen[s] : Terminal(kind[s], seen[s][i])
    \/ \E i \in DOMAIN stream[s] : Terminal(kind[s], stream[s][i])

CancelledResult == [tag |-> "Cancelled", code |-> ""]

\* C4: a cancel request made while the session is listening leads, unless a
\* terminal event arrives, to a session that is done with the outcome
\* Cancelled after exactly one stop and one release.
C4_CancelWhileListening ==
    \A s \in Sessions :
        [](cancelAt[s] = "listening" =>
              <>(\/ TerminalArrived(s)
                 \/ /\ pc[s] = "done"
                    /\ sent[s] = <<CancelledResult>>
                    /\ Count(s, "stop") = 1
                    /\ Count(s, "release") = 1))

\* The first terminal event the listen loop of s has taken is at index i.
FirstTerminalAt(s, i) ==
    /\ i \in DOMAIN seen[s]
    /\ Terminal(kind[s], seen[s][i])
    /\ \A j \in 1..(i - 1) : ~Terminal(kind[s], seen[s][j])

\* C7: when the first terminal event taken by the listen loop carries the
\* kind's success code, the result is Ok, and Ok is what is sent, however
\* many done=false and retry events came before it.
C7_SuccessAfterRetries ==
    \A s \in Sessions : \A i \in DOMAIN seen[s] :
        (FirstTerminalAt(s, i) /\ seen[s][i].code = SuccessCode(kind[s])) =>
            /\ result[s] = OkResult
            /\ pc[s] \in {"stop", "release", "send", "done"}
            /\ \A m \in DOMAIN sent[s] : sent[s][m] = OkResult

\* C7 witness: a session sent Ok after a done=false event and a retry event.
C7_Witness ==
    \E s \in Sessions :
        /\ Len(seen[s]) = 3
        /\ ~seen[s][1].done
        /\ seen[s][2].done /\ seen[s][2].code \in RetryCodes(kind[s])
        /\ seen[s][3] = Event(SuccessCode(kind[s]), TRUE)
        /\ sent[s] = <<OkResult>>

\* C8: a done event whose code is neither the success code nor a retry code
\* is the last event the listen loop takes, and the result, and what is
\* sent, is Err with that very code.
C8_FailureVerbatim ==
    \A s \in Sessions : \A i \in DOMAIN seen[s] :
        (Terminal(kind[s], seen[s][i]) /\ seen[s][i].code # SuccessCode(kind[s])) =>
            /\ i = Len(seen[s])
            /\ result[s] = ErrResult(seen[s][i].code)
            /\ pc[s] \in {"stop", "release", "send", "done"}
            /\ \A m \in DOMAIN sent[s] : sent[s][m] = ErrResult(seen[s][i].code)

\* C8 witness: a verify session sent Err("verify-disconnected") while later
\* signals were left unread in its stream at the time the loop broke.
C8_Witness ==
    \E s \in Sessions :
        /\ kind[s] = "Verify"
        /\ seen[s] # <<>>
        /\ seen[s][Len(seen[s])] = Event("verify-disconnected", TRUE)
        /\ sent[s] = <<ErrResult("verify-disconnected")>>
        /\ lost[s] = <<>>
        /\ MaxEvents - toEmit > Len(seen[s])

\* The retry codes as the claim lists them.
ListedRetryCodes(k) ==
    IF k = "Enroll"
    THEN {"enroll-stage-passed", "enroll-retry-scan", "enroll-swipe-too-short",
          "enroll-finger-not-centered", "enroll-remove-and-retry"}
    ELSE {"verify-retry-scan", "verify-swipe-too-short",
          "verify-finger-not-centered", "verify-remove-and-retry"}

\* C9: taking a done event whose code is a listed retry code leaves the
\* session listening: no result is set and no remote call is issued.
C9_RetryKeepsListening ==
    [][\A s \in Sessions :
          (/\ Len(seen'[s]) = Len(seen[s]) + 1
           /\ seen'[s][Len(seen'[s])].done
           /\ seen'[s][Len(seen'[s])].code \in ListedRetryCodes(kind[s]))
          => /\ pc[s] = "listen" /\ pc'[s] = "listen"
             /\ result'[s] = NoResult
             /\ calls'[s] = calls[s]
             /\ sent'[s] = <<>>]_vars

\* C9 witness: a session is still listening, with no stop or release
\* issued, after taking two different listed retry codes in a row.
C9_Witness ==
    \E s \in Sessions :
        /\ Len(seen[s]) = 2
        /\ \A i \in DOMAIN seen[s] :
              seen[s][i].done /\ seen[s][i].code \in ListedRetryCodes(kind[s])
        /\ seen[s][1] # seen[s][2]
        /\ pc[s] = "listen"
        /\ result[s] = NoResult
        /\ ~Issued(s, "stop") /\ ~Issued(s, "release")

\* C11: in a session where a cancel request met a terminal event, at most
\* one outcome is written, it is the resolution the task fixed (Success or
\* Failure from the event, or Cancelled), it is not replaced afterwards, and
\* stop and release are each issued at most once.
C11_RaceSingleOutcome ==
    \A s \in Sessions :
        cancelAt[s] # "" =>
            /\ Len(sent[s]) <= 1
            /\ \A m \in DOMAIN sent[s] :
                  /\ sent[s][m] = result[s]
                  /\ result[s].tag \in {"Ok", "Err", "Cancelled"}
            /\ Count(s, "stop") <= 1
            /\ Count(s, "release") <= 1

\* C11 witness: a verify session cancelled while listening took a failure
\* event afterwards; its poller has read the single outcome and the session
\* made one stop and one release.
C11_Witness ==
    \E s \in Sessions :
        /\ kind[s] = "Verify"
        /\ cancelAt[s] = "listening"
        /\ sent[s] = <<ErrResult("verify-disconnected")>>
        /\ ppc[s] = "end"
        /\ Count(s, "stop") = 1
        /\ Count(s, "release") = 1

\* The poller of s has run to its end, normally or by a panic.
PollerEnded(s) == ppc[s] \in {"end", "panic"}

\* C12: the caller shows exactly one terminal disposition per session: never
\* two, and one once the poller has received the outcome and finished.
C12_OneDisposition ==
    \A s \in Sessions :
        /\ Len(shown[s]) <= 1
        /\ PollerEnded(s) => Len(shown[s]) = 1

\* C13: a failing stop or release neither changes the outcome fixed by the
\* listen loop nor keeps it from being delivered and displayed: what is
\* sent is the fixed result, and in a session that was not cancelled the
\* finished poller has displayed exactly that result.
C13_CleanupFailureHarmless ==
    \A s \in Sessions :
        (Refused(s, "stop") \/ Refused(s, "release")) =>
            /\ \A m \in DOMAIN sent[s] : sent[s][m] = result[s]
            /\ (cancelAt[s] = "" /\ PollerEnded(s)) => shown[s] = <<result[s]>>

C19_TimerStops ==
    \A s \in Sessions : latePolls[s] = 0

\* C15: a session whose claim is rejected while another session of the
\* process holds the device makes no other remote call, ends with a Failure
\* outcome on its channel, and leaves the holder running.
C15_SecondSessionRejected ==
    \A s, t \in Sessions :
        (s # t /\ Refused(s, "claim") /\ devOwner = t) =>
            /\ Len(calls[s]) = 1
            /\ Len(sent[s]) = 1 /\ sent[s][1].tag = "Err"
            /\ ~crashed

\* The success codes as the claims name them.
ListedSuccessCode(k) == IF k = "Enroll" THEN "enroll-completed" ELSE "verify-match"

\* classify(kind, resultCode, done) as the claim states it.
ExpectedDecision(k, code, done) ==
    IF ~done THEN "Continue"
    ELSE IF code = ListedSuccessCode(k) THEN "Success"
    ELSE IF code \in ListedRetryCodes(k) THEN "Continue"
    ELSE "Failure"

\* C16: whatever event the listen loop takes, what it does is what
\* classify says: Continue keeps it listening with no result, Success
\* breaks with Ok, Failure breaks with Err of the very code.
C16_LoopFollowsClassify ==
    [][\A s \in Sessions :
          Len(seen'[s]) = Len(seen[s]) + 1 =>
              LET e == seen'[s][Len(seen'[s])]
                  d == ExpectedDecision(kind[s], e.code, e.done)
              IN /\ d = "Continue" => (pc'[s] = "listen" /\ result'[s] = NoResult)
                 /\ d = "Success" => (pc'[s] = "stop" /\ result'[s] = OkResult)
                 /\ d = "Failure" =>
                       (pc'[s] = "stop" /\ result'[s] = ErrResult(e.code))]_vars

\* C16 witness: a verify session broke with Err on a retry code of the
\* enroll table.
C16_Witness ==
    \E s \in Sessions :
        /\ kind[s] = "Verify"
        /\ seen[s] = <<Event("enroll-stage-passed", TRUE)>>
        /\ result[s] = ErrResult("enroll-stage-passed")
        /\ pc[s] = "stop"

\* The operations of the remote calls the task of s has issued, in order.
IsTaskCall(c) == c.by = "task"
TaskOps(s) ==
    LET sel == SelectSeq(calls[s], IsTaskCall)
    IN [i \in 1..Len(sel) |-> sel[i].op]

IsPrefix(a, b) == Len(a) <= Len(b) /\ \A i \in 1..Len(a) : a[i] = b[i]

\* C17: the task issues its calls in the order claim, start, (subscribe and
\* listen), stop, release and then sends the outcome: start only after a
\* claim that succeeded, stop and release only once the result is fixed,
\* and the outcome only after the task's release.
C17_CallOrder ==
    \A s \in Sessions :
        /\ IsPrefix(TaskOps(s), <<"claim", "start", "subscribe", "stop", "release">>)
        /\ \A j \in DOMAIN calls[s] :
              calls[s][j].op = "start" =>
                  \E i \in 1..(j - 1) : calls[s][i].op = "claim" /\ calls[s][i].ok
        /\ (Issued(s, "stop") \/ Issued(s, "release")) => result[s] # NoResult
        /\ sent[s] # <<>> =>
              \E i \in DOMAIN calls[s] : calls[s][i].op = "release" /\ IsTaskCall(calls[s][i])

\* C17 witness: a session has issued all five calls in order and sent its
\* outcome.
C17_Witness ==
    \E s \in Sessions :
        /\ TaskOps(s) = <<"claim", "start", "subscribe", "stop", "release">>
        /\ sent[s] = <<result[s]>>
        /\ pc[s] = "done"

\* The device has emitted a terminal event of the operation s started: one
\* that reached the session, or one sent before its subscription existed.
TerminalEmitted(s) ==
    \/ TerminalArrived(s)
    \/ \E i \in DOMAIN lost[s] : Terminal(kind[s], lost[s][i])

\* C18: once start has succeeded and the session listens, a terminal event
\* emitted by the device leads, under fair scheduling of the session task,
\* to stop, release and a sent outcome; the session does not listen forever.
C18_TerminalLeadsToOutcome ==
    \A s \in Sessions :
        []((Accepted(s, "start") /\ pc[s] = "listen" /\ TerminalEmitted(s)) =>
              <>(/\ Issued(s, "stop")
                 /\ Issued(s, "release")
                 /\ sent[s] # <<>>))

\* What the loop of s decided on each event it took, and the operations it
\* called, in order.
Decisions(s) ==
    [i \in DOMAIN seen[s] |-> Classify(kind[s], seen[s][i].code, seen[s][i].done)]
CallOps(s) == [i \in DOMAIN calls[s] |-> calls[s][i].op]

\* Sessions s and t got corresponding inputs: the same claim and start
\* results, events that classify alike, and Cancel in the same phase.
SameInputs(s, t) ==
    /\ \A op \in {"claim", "start"} :
          /\ Accepted(s, op) <=> Accepted(t, op)
          /\ Refused(s, op) <=> Refused(t, op)
    /\ Decisions(s) = Decisions(t)
    /\ cancelAt[s] = cancelAt[t]

\* C20: an enroll session and a verify session that got corresponding
\* inputs and have finished issued the same sequence of remote calls and
\* sent the same outcome.
C20_KindsEquivalent ==
    \A s, t \in Sessions :
        (/\ kind[s] = "Enroll" /\ kind[t] = "Verify"
         /\ pc[s] = "done" /\ PollerEnded(s)
         /\ pc[t] = "done" /\ PollerEnded(t)
         /\ SameInputs(s, t)) =>
            /\ CallOps(s) = CallOps(t)
            /\ Len(sent[s]) = Len(sent[t])
            /\ \A i \in DOMAIN sent[s] : sent[s][i].tag = sent[t][i].tag

====
